---- MODULE Spec2Model ----
(***************************************************************************)
(* native_lib_loader: the library registry built by LibraryLoader.__init__ *)
(* and the load() fallback chain, in its two revisions                     *)
(*   "shared" = pkgs/shared_lib_manager/shared_lib_manager.py              *)
(*   "native" = native_lib_loader/library/loader.py                        *)
(*                                                                         *)
(* Encoding.  A str is a sequence of tokens ("/" the separator, "." the    *)
(* current directory, "C:" a drive, anything else a file or directory      *)
(* name).  An optional value is a sequence of length 0 (None) or 1.        *)
(***************************************************************************)
EXTENDS Naturals, Sequences, FiniteSets, TLC

VARIABLES
    platform,   \* platform.system() of the running process
    environ,    \* os.environ restricted to the PREFER_*_SYSTEM_LIBRARY variables
    fs,         \* the names the OS loader can resolve (files present, system libraries)
    loader,     \* the LibraryLoader object: [constructed, libraries]
    loaded,     \* process-wide: the targets the OS loader has loaded
    call,       \* what the last constructor / load() call did and how it ended
    site,       \* site-packages: which library packages are installed, and how
    modules,    \* sys.modules: the loader object of each imported library package
    linker,     \* the OS loader's global symbol scope and the extensions it bound
    threads     \* the frame of the load() call each thread is in

vars == <<platform, environ, fs, loader, loaded, call, site, modules, linker, threads>>

-----------------------------------------------------------------------------
\* Bounds of the model.
MaxLibs == 2        \* entries of the mapping handed to the constructor
MaxNames == 2       \* length of the names list handed to load()

None == <<>>
Some(v) == <<v>>

\* The attributes a PlatformLibrary has, in the tuple order (Linux, Darwin, Windows).
Platforms == {"Linux", "Darwin", "Windows"}

\* What platform.system() can report; "Java" stands for every value that is
\* no attribute of PlatformLibrary.
SystemNames == Platforms \cup {"Java"}

-----------------------------------------------------------------------------
\* pathlib.Path

Drives == {"C:"}

\* Path(raw) under the flavour of the running platform: the drive (Windows
\* only), the root, and the components with separators and "." dropped.
PathOf(raw, plat) ==
    LET drive == IF plat = "Windows" /\ raw # <<>> /\ raw[1] \in Drives
                 THEN raw[1] ELSE ""
        rest == IF drive # "" THEN Tail(raw) ELSE raw
        root == rest # <<>> /\ rest[1] = "/"
    IN  [drive |-> drive, root |-> root,
         parts |-> SelectSeq(rest, LAMBDA t : t \notin {"/", "."})]

\* Path.is_absolute(): a root, and on Windows a drive as well.
IsAbsolute(p, plat) ==
    IF plat = "Windows" THEN p.drive # "" /\ p.root ELSE p.root

\* Path.name: the final component, "" when there is none.
PathName(p) == IF p.parts = <<>> THEN "" ELSE p.parts[Len(p.parts)]

RECURSIVE JoinParts(_)
JoinParts(parts) ==
    IF parts = <<>> THEN <<>>
    ELSE IF Len(parts) = 1 THEN parts
    ELSE <<parts[1], "/">> \o JoinParts(Tail(parts))

\* str(path)
PathStr(p) ==
    LET head == (IF p.drive # "" THEN <<p.drive>> ELSE <<>>)
                \o (IF p.root THEN <<"/">> ELSE <<>>)
        body == JoinParts(p.parts)
    IN  IF head = <<>> /\ body = <<>> THEN <<".">> ELSE head \o body

-----------------------------------------------------------------------------
\* Exceptions: the type and what the message (or the OS) names.
NoExc == [type |-> "none", arg |-> <<>>]
Exc(type, arg) == [type |-> type, arg |-> arg]

-----------------------------------------------------------------------------
\* PlatformLibrary

\* A constructor argument: None, a str (or PathLike), or a value of another type.
ArgNone == [t |-> "None", s |-> <<>>]
ArgStr(raw) == [t |-> "str", s |-> raw]
ArgOther == [t |-> "int", s |-> <<>>]

\* Python truthiness of an argument: None and "" are falsy.
Truthy(a) == a.t # "None" /\ ~(a.t = "str" /\ a.s = <<>>)

\* shared: PlatformLibrary.__init__(Darwin=, Linux=, Windows=, default=).
\* default is None or Some(raw), raw being what the producer returns.
PlatformLibrary_shared(Linux, Darwin, Windows, default, plat) ==
    LET conv(a) == IF Truthy(a) THEN Some(PathOf(a.s, plat)) ELSE None
        L == conv(Linux)
        D == conv(Darwin)
        W == conv(Windows)
    IN  IF \E a \in {Darwin, Linux, Windows} : a.t \notin {"str", "None"}
        THEN [ok |-> FALSE, exc |-> Exc("TypeError", <<>>),
              kind |-> "PlatformLibrary",
              Linux |-> None, Darwin |-> None, Windows |-> None, default |-> None]
        ELSE IF \E p \in {D, L, W} : p # None /\ ~IsAbsolute(p[1], plat)
        THEN [ok |-> FALSE, exc |-> Exc("ValueError", <<>>),
              kind |-> "PlatformLibrary",
              Linux |-> None, Darwin |-> None, Windows |-> None, default |-> None]
        ELSE [ok |-> TRUE, exc |-> NoExc, kind |-> "PlatformLibrary",
              Linux |-> L, Darwin |-> D, Windows |-> W, default |-> default]

\* native: the NamedTuple PlatformLibrary(Linux, Darwin, Windows) built by the
\* constructor's line 57, every field a Path.
PlatformLibrary_native(Linux, Darwin, Windows) ==
    [ok |-> TRUE, exc |-> NoExc, kind |-> "PlatformLibrary",
     Linux |-> Linux, Darwin |-> Darwin, Windows |-> Windows, default |-> None]

\* A tuple (Linux, Darwin, Windows) holding the arguments as they were given.
PlainTuple(Linux, Darwin, Windows) ==
    [ok |-> TRUE, exc |-> NoExc, kind |-> "tuple",
     Linux |-> Some(Linux), Darwin |-> Some(Darwin), Windows |-> Some(Windows),
     default |-> None]

\* native: PlatformLibrary(Linux=, Darwin=, Windows=) as the package writes it.
\* A NamedTuple stores its fields unconverted, and it is a tuple.
NamedTuple(Linux, Darwin, Windows) ==
    [PlainTuple(Linux, Darwin, Windows) EXCEPT !.kind = "NamedTuple"]

\* Mutant: the attributes are read in the order (Darwin, Linux, Windows) of
\* the keyword arguments instead of by name.
GetAttr_KeywordOrder(desc, name) ==
    CASE name = "Linux" -> [found |-> TRUE, value |-> desc.Darwin]
      [] name = "Darwin" -> [found |-> TRUE, value |-> desc.Linux]
      [] name = "Windows" -> [found |-> TRUE, value |-> desc.Windows]
      [] OTHER -> [found |-> FALSE, value |-> None]

\* getattr(path, platform_name): the attribute's value, or AttributeError.
GetAttr(desc, name) ==
    CASE name = "Linux" -> [found |-> TRUE, value |-> desc.Linux]
      [] name = "Darwin" -> [found |-> TRUE, value |-> desc.Darwin]
      [] name = "Windows" -> [found |-> TRUE, value |-> desc.Windows]
      [] OTHER -> [found |-> FALSE, value |-> None]

-----------------------------------------------------------------------------
\* What the package's load.py hands to the constructor for one library: a
\* PlatformLibrary(...) call ("desc"), a plain tuple ("tuple") or a value of
\* another type ("other"), with the arguments of the three platforms.
Entry(form, Linux, Darwin, Windows, default) ==
    [form |-> form, Linux |-> Linux, Darwin |-> Darwin, Windows |-> Windows,
     default |-> default]

\* The value of the mapping as the constructor receives it.
BuildValue(impl, e, plat) ==
    CASE e.form = "desc" /\ impl = "shared" ->
            PlatformLibrary_shared(e.Linux, e.Darwin, e.Windows, e.default, plat)
      [] e.form = "desc" /\ impl = "native" ->
            NamedTuple(e.Linux, e.Darwin, e.Windows)
      [] e.form = "tuple" -> PlainTuple(e.Linux, e.Darwin, e.Windows)
      [] OTHER -> [PlainTuple(e.Linux, e.Darwin, e.Windows) EXCEPT !.kind = "other"]

\* isinstance(path, tuple): a plain tuple, and the native PlatformLibrary too.
IsTuple(v) == v.kind \in {"tuple", "NamedTuple"}

\* native __init__, lines 56-57: PlatformLibrary(*(Path(p) for p in path)).
\* Path(None) and Path(<not a str>) raise TypeError; Path("") is Path(".").
TupleToPlatformLibrary(v, plat) ==
    IF \E a \in {v.Linux[1], v.Darwin[1], v.Windows[1]} : a.t # "str"
    THEN [PlatformLibrary_native(None, None, None) EXCEPT
             !.ok = FALSE, !.exc = Exc("TypeError", <<>>)]
    ELSE PlatformLibrary_native(Some(PathOf(v.Linux[1].s, plat)),
                                Some(PathOf(v.Darwin[1].s, plat)),
                                Some(PathOf(v.Windows[1].s, plat)))

\* One iteration of the constructor's loop: the registry entry for lib, or the
\* exception raised.  used is TRUE when the default producer was invoked.
ResolveEntry(impl, lib, v0, plat) ==
    LET v == IF impl = "native" /\ IsTuple(v0)
             THEN TupleToPlatformLibrary(v0, plat) ELSE v0
        g == GetAttr(v, plat)
    IN  IF ~v.ok
        THEN [ok |-> FALSE, exc |-> v.exc, path |-> None, used |-> FALSE]
        ELSE IF v.kind # "PlatformLibrary"
        THEN [ok |-> FALSE, exc |-> Exc("TypeError", <<lib>>), path |-> None, used |-> FALSE]
        ELSE IF g.found
        THEN [ok |-> TRUE, exc |-> NoExc, path |-> g.value, used |-> FALSE]
        ELSE IF impl = "shared" /\ v.default # None
        THEN [ok |-> TRUE, exc |-> NoExc,
              path |-> Some(PathOf(v.default[1], plat)), used |-> TRUE]
        ELSE [ok |-> FALSE, exc |-> Exc("ValueError", <<lib, plat>>),
              path |-> None, used |-> FALSE]

\* LibraryLoader.__init__(libraries): items is the mapping in insertion order
\* (distinct keys).  The PlatformLibrary(...) calls of the mapping literal run
\* first, left to right; the first one that raises ends the construction.
RECURSIVE InitLoop(_, _, _, _, _)
InitLoop(impl, values, plat, i, acc) ==
    IF i > Len(values) THEN acc
    ELSE LET r == ResolveEntry(impl, values[i].name, values[i].value, plat)
         IN  IF ~r.ok
             THEN [acc EXCEPT !.ok = FALSE, !.exc = r.exc]
             ELSE InitLoop(impl, values, plat, i + 1,
                     [acc EXCEPT
                        !.libraries = Append(@, [name |-> values[i].name, path |-> r.path]),
                        !.defaults = IF r.used THEN Append(@, values[i].name) ELSE @])

LibraryLoader_init(impl, items, plat) ==
    LET values == [i \in 1..Len(items) |->
                     [name |-> items[i].name,
                      value |-> BuildValue(impl, items[i].entry, plat)]]
        bad == {i \in 1..Len(items) : ~values[i].value.ok}
        first == CHOOSE i \in bad : \A j \in bad : i <= j
        start == [ok |-> TRUE, exc |-> NoExc, libraries |-> <<>>, defaults |-> <<>>]
    IN  IF bad # {}
        THEN [start EXCEPT !.ok = FALSE, !.exc = values[first].value.exc]
        ELSE InitLoop(impl, values, plat, 1, start)

-----------------------------------------------------------------------------
\* The environment

\* str.upper() and str.lower() on the strings of the model.
Upper(s) ==
    CASE s = "a" -> "A"
      [] s = "b" -> "B"
      [] s = "x" -> "X"
      [] OTHER -> s

Lower(s) ==
    CASE s = "FALSE" -> "false"
      [] s = "False" -> "false"
      [] s = "TRUE" -> "true"
      [] OTHER -> s

\* f"PREFER_{library_name.upper()}_SYSTEM_LIBRARY"
PreferVar(library_name) == <<"PREFER_", Upper(library_name), "_SYSTEM_LIBRARY">>

\* os.getenv(key, default)
Getenv(env, key, default) ==
    IF key \in DOMAIN env /\ env[key] # None THEN env[key][1] ELSE default

\* The members of the tuple ("false", 0) a str can equal: the int 0 equals no str.
NotPreferring == {"false"}

\* os.getenv(f"PREFER_..._SYSTEM_LIBRARY", "false").lower() not in ("false", 0)
EnvPrefersSystem(env, library_name) ==
    Lower(Getenv(env, PreferVar(library_name), "false")) \notin NotPreferring

-----------------------------------------------------------------------------
\* The OS loader

\* Mutant: the standard loader passes RTLD_GLOBAL.
_load_RtldGlobal(target, files) ==
    IF target \in files
    THEN [ok |-> TRUE, vis |-> "global", exc |-> NoExc]
    ELSE [ok |-> FALSE, vis |-> "global", exc |-> Exc("OSError", target)]

\* LibraryLoader._load: ctypes.CDLL(str(library_path), mode=ctypes.RTLD_LOCAL).
\* The OS resolves exactly the targets of files; otherwise CDLL raises OSError.
_load(target, files) ==
    IF target \in files
    THEN [ok |-> TRUE, vis |-> "local", exc |-> NoExc]
    ELSE [ok |-> FALSE, vis |-> "local", exc |-> Exc("OSError", target)]

\* TestingLibraryLoader._load_global: ctypes.CDLL(str(library_path), mode=ctypes.RTLD_GLOBAL)
_load_global(target, files) == [_load(target, files) EXCEPT !.vis = "global"]

\* The process-wide global scope after a call: the libraries loaded with
\* RTLD_GLOBAL, in the order they entered it.
RECURSIVE GlobalScopeAfter(_, _)
GlobalScopeAfter(scope, attempts) ==
    IF attempts = <<>> THEN scope
    ELSE LET a == Head(attempts)
             in == \E k \in 1..Len(scope) : scope[k] = a.target
         IN  GlobalScopeAfter(IF a.ok /\ a.vis = "global" /\ ~in
                              THEN Append(scope, a.target) ELSE scope,
                              Tail(attempts))

-----------------------------------------------------------------------------
\* LibraryLoader.load

\* self._libraries[library_name]: the position of the key, 0 for KeyError.
Lookup(libraries, library_name) ==
    LET hits == {i \in 1..Len(libraries) : libraries[i].name = library_name}
    IN  IF hits = {} THEN 0 ELSE CHOOSE i \in hits : TRUE

\* Mutant: the keys come out in reverse insertion order.
Keys_Reversed(libraries) ==
    [i \in 1..Len(libraries) |-> libraries[Len(libraries) + 1 - i].name]

\* self._libraries.keys()
Keys(libraries) == [i \in 1..Len(libraries) |-> libraries[i].name]

\* One load attempt as the call record keeps it: idx is the position in the
\* request, how is "system" (bare name) or "bundled" (full path).
Attempt(idx, lib, how, target, r) ==
    [idx |-> idx, lib |-> lib, how |-> how, target |-> target,
     vis |-> r.vis, ok |-> r.ok]

\* Mutant: the override variable is not consulted.
WantsSystem_FlagOnly(prefer_system, env, library_name) == prefer_system

\* The condition of the if statement: the call-level flag or the override.
WantsSystem(prefer_system, env, library_name) ==
    prefer_system \/ EnvPrefersSystem(env, library_name)

\* Mutant: the system attempt asks the OS for the registry name.
TrySystemThenBundled_ByName(files, library_name, i, library_path, st) ==
    LET sys == <<library_name>>
        full == PathStr(library_path)
        r1 == _load(sys, files)
        r2 == _load(full, files)
        a1 == Attempt(i, library_name, "system", sys, r1)
        a2 == Attempt(i, library_name, "bundled", full, r2)
    IN  IF r1.ok
        THEN [st EXCEPT !.attempts = Append(@, a1), !.loaded = @ \cup {sys}]
        ELSE IF r2.ok
        THEN [st EXCEPT !.attempts = @ \o <<a1, a2>>, !.loaded = @ \cup {full}]
        ELSE [st EXCEPT !.attempts = @ \o <<a1, a2>>, !.failedAt = i, !.exc = r2.exc]

\* Mutant: the bundled path is loaded after a successful bare-name attempt too.
TrySystemThenBundled_Both(files, library_name, i, library_path, st) ==
    LET sys == <<PathName(library_path)>>
        full == PathStr(library_path)
        r1 == _load(sys, files)
        r2 == _load(full, files)
        a1 == Attempt(i, library_name, "system", sys, r1)
        a2 == Attempt(i, library_name, "bundled", full, r2)
    IN  IF r2.ok
        THEN [st EXCEPT !.attempts = @ \o <<a1, a2>>,
                        !.loaded = @ \cup {full} \cup (IF r1.ok THEN {sys} ELSE {})]
        ELSE IF r1.ok
        THEN [st EXCEPT !.attempts = Append(@, a1), !.loaded = @ \cup {sys}]
        ELSE [st EXCEPT !.attempts = @ \o <<a1, a2>>, !.failedAt = i, !.exc = r2.exc]

\* Mutant: no except clause, the OSError of the bare-name attempt is raised.
TrySystemThenBundled_NoFallback(files, library_name, i, library_path, st) ==
    LET sys == <<PathName(library_path)>>
        r1 == _load(sys, files)
        a1 == Attempt(i, library_name, "system", sys, r1)
    IN  IF r1.ok
        THEN [st EXCEPT !.attempts = Append(@, a1), !.loaded = @ \cup {sys}]
        ELSE [st EXCEPT !.attempts = Append(@, a1), !.failedAt = i, !.exc = r1.exc]

\* Mutant: when both attempts fail, the error of the first attempt is re-raised.
TrySystemThenBundled_FirstError(files, library_name, i, library_path, st) ==
    LET sys == <<PathName(library_path)>>
        full == PathStr(library_path)
        r1 == _load(sys, files)
        r2 == _load(full, files)
        a1 == Attempt(i, library_name, "system", sys, r1)
        a2 == Attempt(i, library_name, "bundled", full, r2)
    IN  IF r1.ok
        THEN [st EXCEPT !.attempts = Append(@, a1), !.loaded = @ \cup {sys}]
        ELSE IF r2.ok
        THEN [st EXCEPT !.attempts = @ \o <<a1, a2>>, !.loaded = @ \cup {full}]
        ELSE [st EXCEPT !.attempts = @ \o <<a1, a2>>, !.failedAt = i, !.exc = r1.exc]

\* try: self._load(library_path.name) / except OSError: self._load(library_path)
\* st is [attempts, loaded, failedAt, exc]; failedAt stays 0 while nothing was raised.
TrySystemThenBundled(files, library_name, i, library_path, st) ==
    LET sys == <<PathName(library_path)>>
        full == PathStr(library_path)
        r1 == _load(sys, files)
        r2 == _load(full, files)
        a1 == Attempt(i, library_name, "system", sys, r1)
        a2 == Attempt(i, library_name, "bundled", full, r2)
    IN  IF r1.ok
        THEN [st EXCEPT !.attempts = Append(@, a1), !.loaded = @ \cup {sys}]
        ELSE IF r2.ok
        THEN [st EXCEPT !.attempts = @ \o <<a1, a2>>, !.loaded = @ \cup {full}]
        ELSE [st EXCEPT !.attempts = @ \o <<a1, a2>>, !.failedAt = i, !.exc = r2.exc]

\* Mutant: loading a library drops the ones loaded before it.
LoadBundled_Replaces(files, library_name, i, path, st) ==
    LET full == IF path = None THEN <<"None">> ELSE PathStr(path[1])
        r == _load(full, files)
        a == Attempt(i, library_name, "bundled", full, r)
    IN  IF r.ok
        THEN [st EXCEPT !.attempts = Append(@, a), !.loaded = {full}]
        ELSE [st EXCEPT !.attempts = Append(@, a), !.failedAt = i, !.exc = r.exc]

\* else: self._load(library_path); str(None) is "None".
LoadBundled(files, library_name, i, path, st) ==
    LET full == IF path = None THEN <<"None">> ELSE PathStr(path[1])
        r == _load(full, files)
        a == Attempt(i, library_name, "bundled", full, r)
    IN  IF r.ok
        THEN [st EXCEPT !.attempts = Append(@, a), !.loaded = @ \cup {full}]
        ELSE [st EXCEPT !.attempts = Append(@, a), !.failedAt = i, !.exc = r.exc]

\* Mutant: a library that is already loaded is skipped.
LoadOne_Guarded(libraries, env, files, prefer_system, library_name, i, st) ==
    LET k == Lookup(libraries, library_name)
        path == libraries[k].path
    IN  IF k = 0
        THEN [st EXCEPT !.failedAt = i, !.exc = Exc("ValueError", <<library_name>>)]
        ELSE IF path # None /\ {<<PathName(path[1])>>, PathStr(path[1])} \cap st.loaded # {}
        THEN st
        ELSE IF WantsSystem(prefer_system, env, library_name)
        THEN IF path = None
             THEN [st EXCEPT !.failedAt = i, !.exc = Exc("AttributeError", <<"name">>)]
             ELSE TrySystemThenBundled(files, library_name, i, path[1], st)
        ELSE LoadBundled(files, library_name, i, path, st)

\* Mutant: an unregistered name is skipped instead of raising.
LoadOne_SkipUnknown(libraries, env, files, prefer_system, library_name, i, st) ==
    LET k == Lookup(libraries, library_name)
        path == libraries[k].path
    IN  IF k = 0
        THEN st
        ELSE IF WantsSystem(prefer_system, env, library_name)
        THEN IF path = None
             THEN [st EXCEPT !.failedAt = i, !.exc = Exc("AttributeError", <<"name">>)]
             ELSE TrySystemThenBundled(files, library_name, i, path[1], st)
        ELSE LoadBundled(files, library_name, i, path, st)

\* The body of the for loop for the name at position i of the request.
LoadOne(libraries, env, files, prefer_system, library_name, i, st) ==
    LET k == Lookup(libraries, library_name)
        path == libraries[k].path
    IN  IF k = 0
        THEN [st EXCEPT !.failedAt = i, !.exc = Exc("ValueError", <<library_name>>)]
        ELSE IF WantsSystem(prefer_system, env, library_name)
        THEN IF path = None    \* None.name
             THEN [st EXCEPT !.failedAt = i, !.exc = Exc("AttributeError", <<"name">>)]
             ELSE TrySystemThenBundled(files, library_name, i, path[1], st)
        ELSE LoadBundled(files, library_name, i, path, st)

\* Mutant: only a lookup error leaves the loop, an OSError is kept for the end.
RECURSIVE LoadLoop_OSErrorDeferred(_, _, _, _, _, _, _)
LoadLoop_OSErrorDeferred(libraries, env, files, prefer_system, names, i, st) ==
    IF i > Len(names) \/ st.exc.type = "ValueError" THEN st
    ELSE LoadLoop_OSErrorDeferred(libraries, env, files, prefer_system, names, i + 1,
             LET r == LoadOne(libraries, env, files, prefer_system, names[i], i, st)
             IN  IF st.failedAt # 0 /\ r.exc.type # "ValueError"
                 THEN [r EXCEPT !.failedAt = st.failedAt, !.exc = st.exc]
                 ELSE r)

\* Mutant: the loop goes on with the next name after an exception.
RECURSIVE LoadLoop_KeepGoing(_, _, _, _, _, _, _)
LoadLoop_KeepGoing(libraries, env, files, prefer_system, names, i, st) ==
    IF i > Len(names) THEN st
    ELSE LoadLoop_KeepGoing(libraries, env, files, prefer_system, names, i + 1,
             LET r == LoadOne(libraries, env, files, prefer_system, names[i], i, st)
             IN  IF st.failedAt # 0
                 THEN [r EXCEPT !.failedAt = st.failedAt, !.exc = st.exc]
                 ELSE r)

\* for library_name in libraries: ...; an exception leaves the loop.
RECURSIVE LoadLoop(_, _, _, _, _, _, _)
LoadLoop(libraries, env, files, prefer_system, names, i, st) ==
    IF i > Len(names) \/ st.failedAt # 0 THEN st
    ELSE LoadLoop(libraries, env, files, prefer_system, names, i + 1,
                  LoadOne(libraries, env, files, prefer_system, names[i], i, st))

\* Mutant: the names argument is ignored, every registered library is loaded.
LibraryLoader_load_AllKeys(libraries, env, files, before, names, prefer_system) ==
    LoadLoop(libraries, env, files, prefer_system, Keys(libraries), 1,
             [attempts |-> <<>>, loaded |-> before, failedAt |-> 0, exc |-> NoExc])

\* load(libraries=None, *, prefer_system=False); names is None or Some(list).
LibraryLoader_load(libraries, env, files, before, names, prefer_system) ==
    LET request == IF names = None THEN Keys(libraries) ELSE names[1]
    IN  LoadLoop(libraries, env, files, prefer_system, request, 1,
                 [attempts |-> <<>>, loaded |-> before, failedAt |-> 0, exc |-> NoExc])

-----------------------------------------------------------------------------
\* The packages of the model

LibNames == {"a", "b"}          \* the libraries a package registers
RequestNames == LibNames \cup {"x"}   \* "x" is registered by no package

\* tests/generated_projects/templates/load.py: the file of library n on platform P.
LibFile(P, n) ==
    CASE P = "Linux" -> "lib" \o n \o ".so"
      [] P = "Darwin" -> "lib" \o n \o ".dylib"
      [] OTHER -> n \o ".dll"

\* root = os.path.dirname(os.path.abspath(__file__)) on the running platform
Root(plat) == IF plat = "Windows" THEN <<"C:", "/", "pkg">> ELSE <<"/", "pkg">>

\* os.path.join(root, "lib", <file>)
TemplateArg(P, n, plat) == ArgStr(Root(plat) \o <<"/", "lib", "/", LibFile(P, n)>>)

\* The template's PlatformLibrary(Linux=..., Darwin=..., Windows=...) for library n.
TemplateEntry(n, plat) ==
    Entry("desc", TemplateArg("Linux", n, plat), TemplateArg("Darwin", n, plat),
          TemplateArg("Windows", n, plat), None)

\* The sequences over S of length lo..hi, and those without a repeated element.
SeqsOf(S, lo, hi) == UNION {[1..n -> S] : n \in lo..hi}
Distinct(q) == \A i, j \in 1..Len(q) : i # j => q[i] # q[j]

\* The mappings a package of the template passes: up to MaxLibs libraries.
TemplateItems(plat) ==
    {[i \in 1..Len(q) |-> [name |-> q[i], entry |-> TemplateEntry(q[i], plat)]] :
        q \in {r \in SeqsOf(LibNames, 0, MaxLibs) : Distinct(r)}}

\* What the OS loader may be asked for on this platform: the bare file names
\* and the bundled paths of the template's libraries.
Targets(plat) ==
    UNION {{<<LibFile(plat, n)>>, PathStr(PathOf(TemplateArg(plat, n, plat).s, plat))} :
             n \in LibNames}

\* The values an override variable is given.
EnvValues == {"false", "FALSE", "0", "true"}
EnvKeys == {PreferVar(n) : n \in LibNames}

\* The files present when every library shares the same fate: nothing
\* installed, only the system copies, only the bundled copies, or both.
UniformFiles(plat) ==
    LET bare == {<<LibFile(plat, n)>> : n \in LibNames}
    IN  {{}, bare, Targets(plat) \ bare, Targets(plat)}

-----------------------------------------------------------------------------
\* The state machine

NoCall ==
    [op |-> "none", impl |-> "", items |-> <<>>, names |-> None,
     prefer_system |-> FALSE, attempts |-> <<>>, failedAt |-> 0, exc |-> NoExc,
     defaults |-> <<>>, module |-> "", invoked |-> <<>>]

NoLoader == [constructed |-> FALSE, libraries |-> <<>>]

\* A process that installs and imports no package.
NoSite == [mode |-> "STANDARD", impl |-> "", pkgs |-> <<>>]
NoModules == <<>>
NoLinker == [scope |-> <<>>, ext |-> <<>>]

\* No thread is inside a load() call the model follows statement by statement.
NoThreads == <<>>

\* The package's load.py runs once, at import: loader = LibraryLoader({...}).
Construct(impl, items) ==
    /\ call.op = "none"
    /\ ~loader.constructed
    /\ \E r \in {LibraryLoader_init(impl, items, platform)} :
           /\ loader' = IF r.ok
                        THEN [constructed |-> TRUE, libraries |-> r.libraries]
                        ELSE loader
           /\ call' = [NoCall EXCEPT !.op = "init", !.impl = impl, !.items = items,
                                     !.exc = r.exc, !.defaults = r.defaults]
    /\ UNCHANGED <<platform, environ, fs, loaded, site, modules, linker, threads>>

\* loader.load(names, prefer_system=...)
Load(names, prefer_system) ==
    /\ loader.constructed
    /\ \E r \in {LibraryLoader_load(loader.libraries, environ, fs, loaded,
                                    names, prefer_system)} :
           /\ loaded' = r.loaded
           /\ linker' = [linker EXCEPT !.scope = GlobalScopeAfter(@, r.attempts)]
           /\ call' = [NoCall EXCEPT !.op = "load", !.names = names,
                                     !.prefer_system = prefer_system,
                                     !.attempts = r.attempts,
                                     !.failedAt = r.failedAt, !.exc = r.exc]
    /\ UNCHANGED <<platform, environ, fs, loader, site, modules, threads>>

Requests == {None} \cup {Some(q) : q \in SeqsOf(RequestNames, 0, MaxNames)}

\* A process on Linux whose packages follow the template; the environment and
\* the files present are fixed when the process starts.  Each override
\* variable is unset or "true", and any set of files may be present.
Init ==
    /\ platform = "Linux"
    /\ environ \in [EnvKeys -> {None, Some("true")}]
    /\ fs \in SUBSET Targets(platform)
    /\ loader = NoLoader
    /\ loaded = {}
    /\ call = NoCall
    /\ site = NoSite /\ modules = NoModules /\ linker = NoLinker
    /\ threads = NoThreads

\* The same process with one override variable unset or set to any of
\* EnvValues and the others unset or "true", the libraries sharing the same
\* fate on disk.
InitEnv ==
    /\ platform = "Linux"
    /\ environ \in [EnvKeys -> {None} \cup {Some(v) : v \in EnvValues}]
    /\ \A k1, k2 \in EnvKeys :
           environ[k1] \in {None, Some("true")} \/ environ[k2] \in {None, Some("true")}
                                                \/ k1 = k2
    /\ fs \in UniformFiles(platform)
    /\ loader = NoLoader
    /\ loaded = {}
    /\ call = NoCall
    /\ site = NoSite /\ modules = NoModules /\ linker = NoLinker
    /\ threads = NoThreads

ConstructTemplate ==
    /\ call.op = "none"
    /\ \E impl \in {"shared", "native"} : \E items \in TemplateItems(platform) :
           Construct(impl, items)

LoadAny ==
    /\ loader.constructed
    /\ \E names \in Requests : \E prefer_system \in BOOLEAN : Load(names, prefer_system)

Next == ConstructTemplate \/ LoadAny

Spec == Init /\ [][Next]_vars

SpecEnv == InitEnv /\ [][Next]_vars

-----------------------------------------------------------------------------
\* Construction on every platform, from every kind of mapping value

\* The arguments a package may give for platform P of library n: nothing, the
\* empty string, a value that is no path, the template's absolute path, the
\* same path written with "." and a doubled separator, or a path relative to
\* the working directory.
ArgChoices(P, n, plat) ==
    {ArgNone, ArgStr(<<>>), ArgOther,
     TemplateArg(P, n, plat),
     ArgStr(Root(plat) \o <<"/", ".", "/", "lib", "/", "/", LibFile(P, n)>>),
     ArgStr(<<"lib", "/", LibFile(P, n)>>)}

\* What a default producer of library n returns.
DefaultRaw(n, plat) == Root(plat) \o <<"/", "lib", "/", "lib" \o n \o ".bin">>

CtorEntries(n, plat) ==
    {Entry("desc", l, d, w, df) :
        l \in ArgChoices("Linux", n, plat), d \in ArgChoices("Darwin", n, plat),
        w \in ArgChoices("Windows", n, plat), df \in {None, Some(DefaultRaw(n, plat))}}
    \cup
    {Entry("tuple", l, d, w, None) :
        l \in ArgChoices("Linux", n, plat), d \in ArgChoices("Darwin", n, plat),
        w \in ArgChoices("Windows", n, plat)}
    \cup
    {Entry("other", ArgNone, ArgNone, ArgNone, None)}

\* The mappings of up to MaxLibs libraries in which one library (at position
\* k) is given in any of these ways and the others follow the template.
CtorItems(plat) ==
    {<<>>} \cup
    UNION {UNION {{[i \in 1..Len(q) |->
                      [name |-> q[i],
                       entry |-> IF i = k THEN e ELSE TemplateEntry(q[i], plat)]] :
                    e \in CtorEntries(q[k], plat)} :
                  k \in 1..Len(q)} :
           q \in {r \in SeqsOf(LibNames, 1, MaxLibs) : Distinct(r)}}

InitCtor ==
    /\ platform \in SystemNames
    /\ environ = [k \in EnvKeys |-> None]
    /\ fs = {}
    /\ loader = NoLoader
    /\ loaded = {}
    /\ call = NoCall
    /\ site = NoSite /\ modules = NoModules /\ linker = NoLinker
    /\ threads = NoThreads

ConstructAny ==
    /\ call.op = "none"
    /\ \E impl \in {"shared", "native"} : \E items \in CtorItems(platform) :
           Construct(impl, items)

NextCtor == ConstructAny

SpecCtor == InitCtor /\ [][NextCtor]_vars

-----------------------------------------------------------------------------
\* The testing variant: TestingLibraryLoader

LoadModes == {"LOCAL", "GLOBAL", "ENV"}

\* Path.parent
PathParent(p) ==
    [p EXCEPT !.parts = IF @ = <<>> THEN @ ELSE SubSeq(@, 1, Len(@) - 1)]

\* The variable the ENV branch writes, and the separator of its entries.
SearchPathVar(plat) ==
    IF plat = "Linux" THEN <<"LD_LIBRARY_PATH">>
    ELSE IF plat = "Darwin" THEN <<"DYLD_LIBRARY_PATH">>
    ELSE <<"PATH">>

Sep(plat) == IF plat = "Windows" THEN ";" ELSE ":"

\* sep.join(dirs)
RECURSIVE JoinDirs(_, _)
JoinDirs(dirs, sep) ==
    IF dirs = <<>> THEN <<>>
    ELSE IF Len(dirs) = 1 THEN dirs[1]
    ELSE dirs[1] \o <<sep>> \o JoinDirs(Tail(dirs), sep)

\* Mutant: the separator is written even after an empty old value.
EnvModeValue_AlwaysSep(libraries, env, plat) ==
    Append(Getenv(env, SearchPathVar(plat), <<>>), Sep(plat))
        \o JoinDirs([i \in 1..Len(libraries) |->
                        PathStr(PathParent(libraries[i].path[1]))], Sep(plat))

\* The value the ENV branch assigns: the old value and a separator when the
\* old value is not empty, then the parent directory of every registered path.
EnvModeValue(libraries, env, plat) ==
    LET old == Getenv(env, SearchPathVar(plat), <<>>)
        base == IF old # <<>> THEN Append(old, Sep(plat)) ELSE old
    IN  base \o JoinDirs([i \in 1..Len(libraries) |->
                             PathStr(PathParent(libraries[i].path[1]))], Sep(plat))

\* The result of a load() that leaves the environment as it found it.
WithEnviron(r, env) ==
    [attempts |-> r.attempts, loaded |-> r.loaded, failedAt |-> r.failedAt,
     exc |-> r.exc, environ |-> env]

\* Mutant: self._load is replaced by _load_global in LOCAL mode as well.
WithLoadFunction_AlwaysGlobal(mode, r, files) ==
    [r EXCEPT !.attempts =
        [i \in 1..Len(r.attempts) |->
            [r.attempts[i] EXCEPT
                !.vis = _load_global(r.attempts[i].target, files).vis]]]

\* super().load() with self._load set as the mode says: in GLOBAL mode it is
\* _load_global, so the same attempts are made, each with RTLD_GLOBAL.
WithLoadFunction(mode, r, files) ==
    IF mode = "GLOBAL"
    THEN [r EXCEPT !.attempts =
             [i \in 1..Len(r.attempts) |->
                 [r.attempts[i] EXCEPT
                     !.vis = _load_global(r.attempts[i].target, files).vis]]]
    ELSE r

\* Mutant: the ENV branch falls through to the loading branch as well.
TestingLibraryLoader_load_EnvAlsoLoads(mode, libraries, env, files, before, names, prefer_system, plat) ==
    LET r == LibraryLoader_load(libraries, env, files, before, names, prefer_system)
    IN  [attempts |-> r.attempts, loaded |-> r.loaded, failedAt |-> r.failedAt,
         exc |-> r.exc,
         environ |-> IF mode = "ENV"
                     THEN [env EXCEPT ![SearchPathVar(plat)] =
                                         Some(EnvModeValue(libraries, env, plat))]
                     ELSE env]

\* TestingLibraryLoader.load
TestingLibraryLoader_load(mode, libraries, env, files, before, names, prefer_system, plat) ==
    IF mode = "ENV"
    THEN IF \E i \in 1..Len(libraries) : libraries[i].path = None    \* None.parent
         THEN [attempts |-> <<>>, loaded |-> before, failedAt |-> 1,
               exc |-> Exc("AttributeError", <<"parent">>), environ |-> env]
         ELSE [attempts |-> <<>>, loaded |-> before, failedAt |-> 0, exc |-> NoExc,
               environ |-> [env EXCEPT ![SearchPathVar(plat)] =
                                          Some(EnvModeValue(libraries, env, plat))]]
    ELSE WithEnviron(
             WithLoadFunction(mode,
                 LibraryLoader_load(libraries, env, files, before, names, prefer_system),
                 files),
             env)

\* loader.load(...) on the object a package exposes: the standard loader, or
\* the testing variant when the package was generated with a load mode.
LoaderLoad(obj, env, files, before, names, prefer_system, plat) ==
    IF obj.mode = "STANDARD"
    THEN WithEnviron(
             LibraryLoader_load(obj.libraries, env, files, before, names, prefer_system),
             env)
    ELSE TestingLibraryLoader_load(obj.mode, obj.libraries, env, files, before, names,
                                   prefer_system, plat)

-----------------------------------------------------------------------------
\* Packages: a library package lib<n> bundles library n and exposes `loader`;
\* a Python package pylib<n> loads it through the consumer helper and then
\* imports its extension module, which is linked against library n.

MaxSearchPath == 8      \* tokens of the search-path variable beyond which ENV loads stop

PkgName(n) == "lib" \o n
ConsumerName(n) == "pylib" \o n
PackageNames == {PkgName(n) : n \in LibNames}
Consumers == {ConsumerName(n) : n \in LibNames}
LibOfPackage(m) == CHOOSE n \in LibNames : PkgName(n) = m
LibOfConsumer(c) == CHOOSE n \in LibNames : ConsumerName(n) = c

\* How a library package is installed: not at all; as generated; without the
\* native_lib_loader module its load.py imports; with a mapping value that is
\* neither a descriptor nor a tuple.
PkgStates == {"absent", "present", "missing_dep", "misbuilt"}

\* The mapping the package's load.py passes to the constructor.
PackageItems(m, how, plat) ==
    <<[name |-> LibOfPackage(m),
       entry |-> IF how = "misbuilt"
                 THEN Entry("other", ArgNone, ArgNone, ArgNone, None)
                 ELSE TemplateEntry(LibOfPackage(m), plat)]>>

\* The module object after its load.py ran the constructor: it exposes
\* `loader`, unless the constructor raised.
ModuleOf(r, mode) ==
    IF r.ok
    THEN [exc |-> NoExc, obj |-> Some([mode |-> mode, libraries |-> r.libraries])]
    ELSE [exc |-> r.exc, obj |-> None]

\* importlib.import_module(m): the module's loader object, or the exception
\* raised while finding or executing the module.
ImportModule(m, st, mods, plat) ==
    IF mods[m] # None THEN [exc |-> NoExc, obj |-> mods[m]]
    ELSE IF st.pkgs[m] = "absent"
    THEN [exc |-> Exc("ModuleNotFoundError", <<m>>), obj |-> None]
    ELSE IF st.pkgs[m] = "missing_dep"
    THEN [exc |-> Exc("ModuleNotFoundError", <<"native_lib_loader">>), obj |-> None]
    ELSE ModuleOf(LibraryLoader_init(st.impl, PackageItems(m, st.pkgs[m], plat), plat),
                  st.mode)

\* What a call leaves behind when it loads nothing.
Untouched(mods, env, before, exc) ==
    [exc |-> exc, modules |-> mods, invoked |-> <<>>, attempts |-> <<>>,
     failedAt |-> 0, loaded |-> before, environ |-> env]

\* The else clause: module.loader.load(prefer_system=prefer_system), r being
\* what that call did.
Delegated(m, prefer_system, obj, r, mods) ==
    [exc |-> r.exc, modules |-> [mods EXCEPT ![m] = obj],
     invoked |-> <<[names |-> None, prefer_system |-> prefer_system]>>,
     attempts |-> r.attempts, failedAt |-> r.failedAt,
     loaded |-> r.loaded, environ |-> r.environ]

\* Mutant: no except clause, the ModuleNotFoundError reaches the caller.
AfterImport_NoExcept(m, prefer_system, imp, mods, env, files, before, plat) ==
    IF imp.exc # NoExc THEN Untouched(mods, env, before, imp.exc)
    ELSE Delegated(m, prefer_system, imp.obj,
                   LoaderLoad(imp.obj[1], env, files, before, None, prefer_system, plat),
                   mods)

\* The try statement around the import, imp being what import_module did.
\* `except ModuleNotFoundError` matches the class, whatever module is missing.
AfterImport(m, prefer_system, imp, mods, env, files, before, plat) ==
    IF imp.exc.type = "ModuleNotFoundError" THEN Untouched(mods, env, before, NoExc)
    ELSE IF imp.exc # NoExc THEN Untouched(mods, env, before, imp.exc)
    ELSE Delegated(m, prefer_system, imp.obj,
                   LoaderLoad(imp.obj[1], env, files, before, None, prefer_system, plat),
                   mods)

\* Mutant: the flag is not forwarded, load() runs with its default.
load_library_module_DropsFlag(m, prefer_system, st, mods, env, files, before, plat) ==
    AfterImport(m, FALSE, ImportModule(m, st, mods, plat),
                mods, env, files, before, plat)

\* consumer/loader.py: load_library_module(module_name, *, prefer_system=False)
load_library_module(m, prefer_system, st, mods, env, files, before, plat) ==
    AfterImport(m, prefer_system, ImportModule(m, st, mods, plat),
                mods, env, files, before, plat)

\* The library a target is a file of.
LibOfTarget(t, plat) == CHOOSE n \in LibNames : LibFile(plat, n) = t[Len(t)]

\* The OS loader importing the extension of library n: the library it is
\* linked against is the copy already in the process, else the one the default
\* search path gives, else the import fails.  Its symbols bind to the first
\* library of the global scope (Linux), else to the library it is linked against.
BindExtension(n, now, scope, files, plat) ==
    LET soname == LibFile(plat, n)
        have == {t \in now : t[Len(t)] = soname}
        found == have # {} \/ <<soname>> \in files
    IN  IF ~found
        THEN [ok |-> FALSE, defines |-> "", loaded |-> now]
        ELSE [ok |-> TRUE,
              defines |-> IF plat = "Linux" /\ scope # <<>>
                          THEN LibOfTarget(scope[1], plat) ELSE n,
              loaded |-> IF have # {} THEN now ELSE now \cup {<<soname>>}]

\* The ENV branch makes the search-path variable longer with every call.
WithinSearchPath ==
    site.mode = "ENV" => Len(Getenv(environ, SearchPathVar(platform), <<>>)) <= MaxSearchPath

\* native_lib_loader.consumer.load_library_module(m, prefer_system=p)
LoadLibraryModule(m, p) ==
    \E r \in {load_library_module(m, p, site, modules, environ, fs, loaded, platform)} :
       /\ modules' = r.modules
       /\ loaded' = r.loaded
       /\ environ' = r.environ
       /\ linker' = [linker EXCEPT !.scope = GlobalScopeAfter(@, r.attempts)]
       /\ call' = [NoCall EXCEPT !.op = "load_library_module", !.module = m,
                                 !.prefer_system = p, !.invoked = r.invoked,
                                 !.attempts = r.attempts, !.failedAt = r.failedAt,
                                 !.exc = r.exc]
       /\ UNCHANGED <<platform, fs, loader, site, threads>>

\* lib<n>.loader.load(names, prefer_system=p) on an imported package
ModuleLoad(m, names, p) ==
    /\ modules[m] # None
    /\ \E r \in {LoaderLoad(modules[m][1], environ, fs, loaded, names, p, platform)} :
          /\ loaded' = r.loaded
          /\ environ' = r.environ
          /\ linker' = [linker EXCEPT !.scope = GlobalScopeAfter(@, r.attempts)]
          /\ call' = [NoCall EXCEPT !.op = "load", !.module = m, !.names = names,
                                    !.prefer_system = p, !.attempts = r.attempts,
                                    !.failedAt = r.failedAt, !.exc = r.exc]
    /\ UNCHANGED <<platform, fs, loader, site, modules, threads>>

\* `import pylib<n>`: the package's __init__ calls
\* load_library_module("lib<n>") and then imports the extension module.
ImportConsumer(c) ==
    \E r \in {load_library_module(PkgName(LibOfConsumer(c)), FALSE, site, modules,
                                  environ, fs, loaded, platform)} :
    \E scope \in {GlobalScopeAfter(linker.scope, r.attempts)} :
    \E b \in {BindExtension(LibOfConsumer(c), r.loaded, scope, fs, platform)} :
       /\ modules' = r.modules
       /\ environ' = r.environ
       /\ loaded' = IF r.exc = NoExc THEN b.loaded ELSE r.loaded
       /\ linker' = [scope |-> scope,
                     ext |-> IF r.exc = NoExc
                             THEN [linker.ext EXCEPT ![c] =
                                      Some([ok |-> b.ok, defines |-> b.defines])]
                             ELSE linker.ext]
       /\ call' = [NoCall EXCEPT !.op = "import", !.module = c,
                                 !.invoked = r.invoked, !.attempts = r.attempts,
                                 !.failedAt = r.failedAt,
                                 !.exc = IF r.exc = NoExc /\ ~b.ok
                                         THEN Exc("ImportError", <<LibFile(platform, LibOfConsumer(c))>>)
                                         ELSE r.exc]
       /\ UNCHANGED <<platform, fs, loader, site, threads>>

SearchPathVars == {SearchPathVar(P) : P \in Platforms}

\* A process with its packages installed in one of the ways above, all
\* generated with the same load mode.  The ENV mode runs on each of the three
\* platforms, with the search-path variable unset or set; the loading modes
\* run on Linux.
InitPkg ==
    /\ site \in [mode : {"STANDARD"} \cup LoadModes, impl : {"shared", "native"},
                 pkgs : [PackageNames -> PkgStates]]
    /\ platform \in (IF site.mode = "ENV" THEN Platforms ELSE {"Linux"})
    /\ \E v \in (IF site.mode = "ENV" THEN {None, Some(<<"/", "opt">>)} ELSE {None}) :
          environ = [k \in EnvKeys \cup SearchPathVars |->
                        IF k = SearchPathVar(platform) THEN v
                        ELSE IF k \in EnvKeys THEN None ELSE Some(<<"/", "usr">>)]
    /\ fs \in UniformFiles(platform)
    /\ loader = NoLoader
    /\ loaded = {}
    /\ call = NoCall
    /\ modules = [m \in PackageNames |-> None]
    /\ linker = [scope |-> <<>>, ext |-> [c \in Consumers |-> None]]
    /\ threads = NoThreads

CallHelper ==
    /\ WithinSearchPath
    /\ \E m \in PackageNames : \E p \in BOOLEAN : LoadLibraryModule(m, p)

ImportPackage ==
    /\ WithinSearchPath
    /\ \E c \in Consumers :
          /\ IF linker.ext[c] = None THEN TRUE ELSE ~linker.ext[c][1].ok
          /\ ImportConsumer(c)

\* Every library, one registered library, or one that is not registered.
PkgRequests == {None} \cup {Some(<<n>>) : n \in RequestNames}

CallLoad ==
    /\ WithinSearchPath
    /\ \E m \in PackageNames : \E names \in PkgRequests : \E p \in BOOLEAN :
          ModuleLoad(m, names, p)

NextPkg == CallHelper \/ CallLoad \/ ImportPackage

SpecPkg == InitPkg /\ [][NextPkg]_vars

-----------------------------------------------------------------------------
\* A package whose library names differ only in letter case

\* dict keys are compared as they are written: "a" and "A" are two keys.
CaseNames == {"a", "A", "b"}
CaseKeys == {PreferVar(n) : n \in CaseNames}

CaseItems(plat) ==
    {[i \in 1..Len(q) |-> [name |-> q[i], entry |-> TemplateEntry(q[i], plat)]] :
        q \in {r \in SeqsOf(CaseNames, 0, MaxLibs) : Distinct(r)}}

\* Nothing installed, only the system copies, only the bundled copies, or both.
CaseFiles(plat) ==
    LET bare == {<<LibFile(plat, n)>> : n \in CaseNames}
        bundled == {PathStr(PathOf(TemplateArg(plat, n, plat).s, plat)) : n \in CaseNames}
    IN  {{}, bare, bundled, bare \cup bundled}

CaseRequests == {None} \cup {Some(q) : q \in SeqsOf(CaseNames, 1, 2)}

InitCase ==
    /\ platform = "Linux"
    /\ environ \in [CaseKeys -> {None, Some("true"), Some("false")}]
    /\ fs \in CaseFiles(platform)
    /\ loader = NoLoader
    /\ loaded = {}
    /\ call = NoCall
    /\ site = NoSite /\ modules = NoModules /\ linker = NoLinker
    /\ threads = NoThreads

ConstructCase ==
    /\ call.op = "none"
    /\ \E impl \in {"shared", "native"} : \E items \in CaseItems(platform) :
           Construct(impl, items)

LoadCase ==
    /\ loader.constructed
    /\ \E names \in CaseRequests : \E prefer_system \in BOOLEAN : Load(names, prefer_system)

NextCase == ConstructCase \/ LoadCase

SpecCase == InitCase /\ [][NextCase]_vars

-----------------------------------------------------------------------------
\* load() statement by statement, one frame per thread

\* The loader object of this part: [constructed, libraries, mode, _load], mode
\* being "STANDARD" for a LibraryLoader and self._mode for the testing variant,
\* _load the visibility of the function the attribute self._load gives.
NoFrame ==
    [pc |-> "idle", names |-> None, prefer_system |-> FALSE, request |-> <<>>,
     i |-> 0, attempts |-> <<>>, failedAt |-> 0, exc |-> NoExc, calls |-> 0]

\* TestingLibraryLoader.__init__: super().__init__(libraries); self._mode = mode.
\* The class attribute _load is the RTLD_LOCAL one.
NewLoader(r, mode) ==
    [constructed |-> TRUE, libraries |-> r.libraries, mode |-> mode, _load |-> "local"]

\* Mutant: the GLOBAL mode swaps nothing.
SwapLoad_Never(self) == self

\* if self._mode == LoadMode.GLOBAL: self._load = self._load_global
SwapLoad(self) ==
    IF self.mode = "GLOBAL" THEN [self EXCEPT !._load = "global"] ELSE self

\* Mutant: no finally clause, the swapped function stays.
RestoreLoad_Missing(self) == self

\* finally: self._load = LibraryLoader._load (the testing variant only)
RestoreLoad(self) ==
    IF self.mode = "STANDARD" THEN self ELSE [self EXCEPT !._load = "local"]

\* self._load(target): the attribute is looked up when the call is made.
SelfLoad(self, target, files) ==
    IF self._load = "global" THEN _load_global(target, files) ELSE _load(target, files)

\* The frame after an attempt that succeeded, failed for good, or failed in
\* the try block.
Succeeded(fr, a) == [fr EXCEPT !.attempts = Append(@, a), !.i = @ + 1, !.pc = "loop"]
Raised(fr, exc) == [fr EXCEPT !.failedAt = fr.i, !.exc = exc, !.pc = "finally"]
Caught(fr, a) == [fr EXCEPT !.attempts = Append(@, a), !.pc = "except"]

\* Mutant: the lookup takes the entry out of the registry.
Registry_Popped(self, k) ==
    [self EXCEPT !.libraries =
        [n \in 1..(Len(@) - 1) |-> IF n < k THEN @[n] ELSE @[n + 1]]]

\* library_path = self._libraries[library_name]: the object after the lookup.
Registry(self, k) == self

\* One pass through the for statement for the frame fr: the end of the loop,
\* the lookup, and the first self._load call for the name.
ForBody(self, fr, env, files) ==
    IF fr.i > Len(fr.request) THEN [frame |-> [fr EXCEPT !.pc = "finally"], got |-> {}, self |-> self]
    ELSE LET library_name == fr.request[fr.i]
             k == Lookup(self.libraries, library_name)
             path == self.libraries[k].path
             sys == <<PathName(path[1])>>
             full == IF path = None THEN <<"None">> ELSE PathStr(path[1])
             r1 == SelfLoad(self, sys, files)
             r2 == SelfLoad(self, full, files)
         IN  IF k = 0
             THEN [frame |-> Raised(fr, Exc("ValueError", <<library_name>>)),
                   got |-> {}, self |-> self]
             ELSE IF WantsSystem(fr.prefer_system, env, library_name)
             THEN IF path = None
                  THEN [frame |-> Raised(fr, Exc("AttributeError", <<"name">>)),
                        got |-> {}, self |-> Registry(self, k)]
                  ELSE IF r1.ok
                  THEN [frame |-> Succeeded(fr, Attempt(fr.i, library_name, "system", sys, r1)),
                        got |-> {sys}, self |-> Registry(self, k)]
                  ELSE [frame |-> Caught(fr, Attempt(fr.i, library_name, "system", sys, r1)),
                        got |-> {}, self |-> Registry(self, k)]
             ELSE IF r2.ok
             THEN [frame |-> Succeeded(fr, Attempt(fr.i, library_name, "bundled", full, r2)),
                   got |-> {full}, self |-> Registry(self, k)]
             ELSE [frame |-> [Raised(fr, r2.exc) EXCEPT !.attempts =
                                 Append(@, Attempt(fr.i, library_name, "bundled", full, r2))],
                   got |-> {}, self |-> Registry(self, k)]

\* except OSError: self._load(library_path)
ExceptOSError(self, fr, files) ==
    LET library_name == fr.request[fr.i]
        full == PathStr(self.libraries[Lookup(self.libraries, library_name)].path[1])
        r == SelfLoad(self, full, files)
        a == Attempt(fr.i, library_name, "bundled", full, r)
    IN  IF r.ok
        THEN [frame |-> Succeeded(fr, a), got |-> {full}]
        ELSE [frame |-> [Raised(fr, r.exc) EXCEPT !.attempts = Append(@, a)], got |-> {}]

\* The ENV branch may run while the search-path variable is this short.
SearchPathShort ==
    loader.mode = "ENV" => Len(Getenv(environ, SearchPathVar(platform), <<>>)) <= MaxSearchPath

\* loader = LibraryLoader({...}, mode=...) of the generated package
ConstructWithMode(mode, impl, items) ==
    /\ call.op = "none"
    /\ ~loader.constructed
    /\ \E r \in {LibraryLoader_init(impl, items, platform)} :
           /\ loader' = IF r.ok THEN NewLoader(r, mode) ELSE loader
           /\ call' = [NoCall EXCEPT !.op = "init", !.impl = impl, !.items = items,
                                     !.exc = r.exc, !.defaults = r.defaults]
    /\ UNCHANGED <<platform, environ, fs, loaded, site, modules, linker, threads>>

\* Thread t calls loader.load(names, prefer_system=p): the ENV branch as a
\* whole, or the statements before the for loop.
Enter(t, names, p) ==
    /\ loader.constructed
    /\ threads[t].pc = "idle"
    /\ SearchPathShort
    /\ IF loader.mode = "ENV"
       THEN \E r \in {TestingLibraryLoader_load("ENV", loader.libraries, environ, fs,
                                                loaded, names, p, platform)} :
               /\ environ' = r.environ
               /\ threads' = [threads EXCEPT ![t] =
                                 [NoFrame EXCEPT !.names = names, !.prefer_system = p,
                                                 !.exc = r.exc, !.failedAt = r.failedAt,
                                                 !.calls = 1]]
               /\ loader' = loader
       ELSE /\ loader' = SwapLoad(loader)
            /\ threads' = [threads EXCEPT ![t] =
                              [NoFrame EXCEPT !.pc = "loop", !.names = names,
                                              !.prefer_system = p, !.i = 1,
                                              !.request = IF names = None
                                                          THEN Keys(loader.libraries)
                                                          ELSE names[1],
                                              !.calls = 1]]
            /\ environ' = environ
    /\ UNCHANGED <<platform, fs, loaded, call, site, modules, linker>>

\* Thread t runs the for statement once.
Iterate(t) ==
    /\ threads[t].pc = "loop"
    /\ \E r \in {ForBody(loader, threads[t], environ, fs)} :
          /\ threads' = [threads EXCEPT ![t] = r.frame]
          /\ loaded' = loaded \cup r.got
          /\ loader' = r.self
          /\ linker' = [linker EXCEPT !.scope =
                           GlobalScopeAfter(@, SubSeq(r.frame.attempts,
                                                      Len(threads[t].attempts) + 1,
                                                      Len(r.frame.attempts)))]
    /\ UNCHANGED <<platform, environ, fs, call, site, modules>>

\* Thread t runs the except clause of the system attempt.
Fallback(t) ==
    /\ threads[t].pc = "except"
    /\ \E r \in {ExceptOSError(loader, threads[t], fs)} :
          /\ threads' = [threads EXCEPT ![t] = r.frame]
          /\ loaded' = loaded \cup r.got
          /\ linker' = [linker EXCEPT !.scope =
                           GlobalScopeAfter(@, SubSeq(r.frame.attempts,
                                                      Len(threads[t].attempts) + 1,
                                                      Len(r.frame.attempts)))]
    /\ UNCHANGED <<platform, environ, fs, loader, call, site, modules>>

\* Thread t leaves load(): the finally clause, then the return or the raise.
Leave(t) ==
    /\ threads[t].pc = "finally"
    /\ loader' = RestoreLoad(loader)
    /\ threads' = [threads EXCEPT ![t] = [NoFrame EXCEPT !.calls = 1]]
    /\ UNCHANGED <<platform, environ, fs, loaded, call, site, modules, linker>>

\* What a thread asks for: any request when it is the only thread, else every
\* library or a name that is not registered.
ThreadRequests ==
    IF Cardinality(DOMAIN threads) = 1 THEN Requests ELSE {None, Some(<<"x">>)}

\* A package that keeps library n in its own directory, root/lib<n>.
OwnDirArg(P, n, plat) == ArgStr(Root(plat) \o <<"/", "lib" \o n, "/", LibFile(P, n)>>)

OwnDirEntry(n, plat) ==
    Entry("desc", OwnDirArg("Linux", n, plat), OwnDirArg("Darwin", n, plat),
          OwnDirArg("Windows", n, plat), None)

OwnDirItems(plat) ==
    {[i \in 1..Len(q) |-> [name |-> q[i], entry |-> OwnDirEntry(q[i], plat)]] :
        q \in {r \in SeqsOf(LibNames, MaxLibs, MaxLibs) : Distinct(r)}}

\* The mappings of the packages: the template's, and for the ENV mode, which
\* loads nothing, also the ones with a directory per library.
ThreadItems(plat, mode) ==
    TemplateItems(plat) \cup (IF mode = "ENV" THEN OwnDirItems(plat) ELSE {})

ConstructForThreads ==
    \E items \in ThreadItems(platform, site.mode) :
        ConstructWithMode(site.mode, site.impl, items)

EnterAny ==
    \E t \in DOMAIN threads : \E names \in ThreadRequests : \E p \in BOOLEAN :
        Enter(t, names, p)

IterateAny == \E t \in DOMAIN threads : Iterate(t)

FallbackAny == \E t \in DOMAIN threads : Fallback(t)

LeaveAny == \E t \in DOMAIN threads : Leave(t)

NextThreads == ConstructForThreads \/ EnterAny \/ IterateAny \/ FallbackAny \/ LeaveAny

\* One thread, a package generated with any load mode; as in InitPkg, the ENV
\* mode runs on the three platforms with the search-path variable unset, empty
\* or set, the loading modes on Linux.
InitOneThread ==
    /\ site \in [mode : {"STANDARD"} \cup LoadModes, impl : {"shared", "native"},
                 pkgs : {<<>>}]
    /\ platform \in (IF site.mode = "ENV" THEN Platforms ELSE {"Linux"})
    /\ \E v \in (IF site.mode = "ENV" THEN {None, Some(<<>>), Some(<<"/", "opt">>)}
                                      ELSE {None}) :
          environ = [k \in EnvKeys \cup SearchPathVars |->
                        IF k = SearchPathVar(platform) THEN v
                        ELSE IF k \in EnvKeys THEN None ELSE Some(<<"/", "usr">>)]
    /\ fs \in UniformFiles(platform)
    /\ loader = NoLoader
    /\ loaded = {}
    /\ call = NoCall
    /\ modules = NoModules
    /\ linker = NoLinker
    /\ threads = [t \in {1} |-> NoFrame]

SpecOneThread == InitOneThread /\ [][NextThreads]_vars

\* Two threads sharing the loader of a package generated with the LOCAL or the
\* GLOBAL mode, on Linux, the bundled copies being installed.
InitTwoThreads ==
    /\ site \in [mode : {"LOCAL", "GLOBAL"}, impl : {"native"}, pkgs : {<<>>}]
    /\ platform = "Linux"
    /\ environ = [k \in EnvKeys |-> None]
    /\ fs \in {f \in UniformFiles(platform) :
                 \A n \in LibNames :
                    PathStr(PathOf(TemplateArg(platform, n, platform).s, platform)) \in f}
    /\ loader = NoLoader
    /\ loaded = {}
    /\ call = NoCall
    /\ modules = NoModules
    /\ linker = NoLinker
    /\ threads = [t \in {1, 2} |-> NoFrame]

SpecTwoThreads == InitTwoThreads /\ [][NextThreads]_vars

-----------------------------------------------------------------------------
\* Vocabulary of the properties, read off the last call record

\* The names the last load() call was asked for.
Request == IF call.names = None
           THEN [i \in 1..Len(loader.libraries) |-> loader.libraries[i].name]
           ELSE call.names[1]

IsRegistered(n) == \E k \in 1..Len(loader.libraries) : loader.libraries[k].name = n

RegisteredPath(n) ==
    (CHOOSE e \in {loader.libraries[k] : k \in 1..Len(loader.libraries)} : e.name = n).path[1]

SystemTarget(n) == <<PathName(RegisteredPath(n))>>
BundledTarget(n) == PathStr(RegisteredPath(n))

\* The loop reached position i: nothing was raised before it.
Processed(i) == call.failedAt = 0 \/ i <= call.failedAt

AttemptsOf(i) == SelectSeq(call.attempts, LAMBDA a : a.idx = i)

\* The override as the specification words it: set, and not "false" or "0"
\* whatever the letter case.
OverrideRequested(n) ==
    /\ environ[PreferVar(n)] # None
    /\ Lower(environ[PreferVar(n)][1]) \notin {"false", "0"}

SystemRequested(n) == call.prefer_system \/ OverrideRequested(n)

\* Position i of the last load() call is a registered library that the loop reached.
Reached(i) == i \in 1..Len(Request) /\ Processed(i) /\ IsRegistered(Request[i])

-----------------------------------------------------------------------------
\* The fallback case at position i: system preference requested, the bare
\* name cannot be resolved by the OS, the bundled path can.
C1_FallbackCase(i) ==
    /\ Reached(i)
    /\ SystemRequested(Request[i])
    /\ SystemTarget(Request[i]) \notin fs
    /\ BundledTarget(Request[i]) \in fs

\* C1: when system preference is requested for a library, the bare-name attempt
\* fails with an OSError and the bundled path can be loaded, the library is
\* loaded from the bundled path (bare name tried and failed, then the path
\* loaded), no error is raised for it, and a call in which every requested
\* library is in that case returns normally.
C1_FallbackSucceeds ==
    call.op = "load" =>
        /\ \A i \in 1..Len(Request) : C1_FallbackCase(i) =>
              /\ call.failedAt # i
              /\ BundledTarget(Request[i]) \in loaded
              /\ Len(AttemptsOf(i)) = 2
              /\ AttemptsOf(i)[1].how = "system" /\ ~AttemptsOf(i)[1].ok
              /\ AttemptsOf(i)[2].target = BundledTarget(Request[i])
              /\ AttemptsOf(i)[2].ok
        /\ (\A i \in 1..Len(Request) : C1_FallbackCase(i)) =>
              call.failedAt = 0 /\ call.exc = NoExc

C1_Witness ==
    /\ call.op = "load"
    /\ Len(Request) = 2
    /\ \A i \in 1..2 : C1_FallbackCase(i)
    /\ call.exc = NoExc
    /\ Len(call.attempts) = 4

\* Position i has system preference requested and neither the bare name nor
\* the bundled path can be resolved by the OS.
C2_BothFailCase(i) ==
    /\ Reached(i)
    /\ SystemRequested(Request[i])
    /\ SystemTarget(Request[i]) \notin fs
    /\ BundledTarget(Request[i]) \notin fs

\* C2: when system preference is requested for a library and both the
\* bare-name and the bundled-path attempt fail, the call fails at that library
\* and the caller receives the OSError the OS loader raised for the bundled
\* path, as raised.
C2_OSErrorPropagates ==
    call.op = "load" =>
        \A i \in 1..Len(Request) : C2_BothFailCase(i) =>
            /\ call.failedAt = i
            /\ call.exc = [type |-> "OSError", arg |-> BundledTarget(Request[i])]
            /\ Len(AttemptsOf(i)) = 2
            /\ \A j \in 1..2 : ~AttemptsOf(i)[j].ok

C2_Witness ==
    /\ call.op = "load"
    /\ \E i \in 1..Len(Request) : C2_BothFailCase(i)
    /\ call.exc.type = "OSError"

\* C3: the override read from PREFER_<NAME>_SYSTEM_LIBRARY requests system
\* preference for every value except those that equal "false" or "0" whatever
\* the letter case, and does not request it when unset, "false" or "0".
C3_OverrideTruthiness ==
    call.op = "load" =>
        \A i \in 1..Len(Request) : Reached(i) =>
            (EnvPrefersSystem(environ, Request[i]) <=> OverrideRequested(Request[i]))

\* C4: whenever the call-level flag or the override variable requests system
\* preference for a library, the first load attempt for it is the bare-name
\* one, and any bundled-path attempt comes after it.
C4_SystemFirst ==
    call.op = "load" =>
        \A i \in 1..Len(Request) :
            (Reached(i) /\ SystemRequested(Request[i])) =>
                /\ AttemptsOf(i) # <<>>
                /\ AttemptsOf(i)[1].how = "system"
                /\ AttemptsOf(i)[1].target = SystemTarget(Request[i])
                /\ \A j \in 2..Len(AttemptsOf(i)) : AttemptsOf(i)[j].how = "bundled"

\* PREFER_A_SYSTEM_LIBRARY=true with prefer_system=False.
C4_Witness ==
    /\ call.op = "load"
    /\ call.names = Some(<<"a">>)
    /\ ~call.prefer_system
    /\ environ[PreferVar("a")] = Some("true")
    /\ call.attempts # <<>>
    /\ call.attempts[1].how = "system"

\* prefer_system=True with the variable set to "false".
C4_WitnessFlag ==
    /\ call.op = "load"
    /\ call.names = Some(<<"a">>)
    /\ call.prefer_system
    /\ environ[PreferVar("a")] = Some("false")
    /\ call.attempts # <<>>
    /\ call.attempts[1].how = "system"

\* C5: when neither the call-level flag nor the override variable requests
\* system preference, load() makes exactly one attempt for the library, with
\* its bundled path, and never hands the bare name to the OS loader.
C5_BundledOnly ==
    call.op = "load" =>
        \A i \in 1..Len(Request) :
            (Reached(i) /\ ~SystemRequested(Request[i])) =>
                /\ Len(AttemptsOf(i)) = 1
                /\ AttemptsOf(i)[1].how = "bundled"
                /\ AttemptsOf(i)[1].target = BundledTarget(Request[i])

-----------------------------------------------------------------------------
\* The registry's names in registry order, and the attempts that loaded something.
RegistryNames == [i \in 1..Len(loader.libraries) |-> loader.libraries[i].name]
Successes == SelectSeq(call.attempts, LAMBDA a : a.ok)

\* C6: load() with no names loads every registered library in the insertion
\* order of the mapping given at construction: the registry keeps the mapping's
\* order, and when all loads succeed each registered library is loaded exactly
\* once by the call, in that order.
C6_LoadAllInOrder ==
    /\ (call.op = "init" /\ call.exc = NoExc) =>
          RegistryNames = [i \in 1..Len(call.items) |-> call.items[i].name]
    /\ (call.op = "load" /\ call.names = None /\ call.exc = NoExc) =>
          /\ [j \in 1..Len(Successes) |-> Successes[j].lib] = RegistryNames
          /\ \A j \in 1..Len(Successes) :
                /\ Successes[j].target \in
                      {SystemTarget(RegistryNames[j]), BundledTarget(RegistryNames[j])}
                /\ Successes[j].target \in loaded

C6_Witness ==
    /\ call.op = "load" /\ call.names = None /\ call.exc = NoExc
    /\ RegistryNames = <<"b", "a">>
    /\ Len(Successes) = 2

\* C7: load(names) processes the names in the order given, finishes the
\* attempts for one name before it starts the next, skips none, and makes
\* attempts only for the names requested.
C7_RequestedInOrder ==
    (call.op = "load" /\ call.names # None) =>
        LET names == call.names[1]
            att == call.attempts
        IN  /\ \A j \in 1..Len(att) :
                  /\ att[j].idx \in 1..Len(names)
                  /\ att[j].lib = names[att[j].idx]
                  /\ att[j].target \in {SystemTarget(att[j].lib), BundledTarget(att[j].lib)}
            /\ \A j, k \in 1..Len(att) : j < k => att[j].idx <= att[k].idx
            /\ \A i \in 1..Len(names) :
                  (call.failedAt = 0 \/ i < call.failedAt) => AttemptsOf(i) # <<>>

\* The registry is (a, b); b then a is requested, and b alone in the state before.
C7_Witness ==
    /\ call.op = "load" /\ call.names = Some(<<"b", "a">>) /\ call.exc = NoExc
    /\ RegistryNames = <<"a", "b">>
    /\ Len(call.attempts) >= 3

\* C8 as claimed: a load() call that raises the lookup error has performed no
\* load action, wherever the unregistered name stands in names.
C8_NoLoadOnLookupError ==
    (call.op = "load" /\ call.exc.type = "ValueError") => call.attempts = <<>>

\* The first unregistered name of the request stands at position i.
C8_FirstUnknown(i) ==
    /\ i \in 1..Len(Request)
    /\ ~IsRegistered(Request[i])
    /\ \A j \in 1..(i - 1) : IsRegistered(Request[j])

\* C8 amended: the call raises the lookup error naming the first unregistered
\* name unless the load of an earlier name already failed with an OS error; no
\* attempt is made for that name or a later one, the names before it are
\* loaded first, and no load action happens when it stands first.
C8_LookupErrorStopsThere ==
    call.op = "load" =>
        \A i \in 1..Len(Request) : C8_FirstUnknown(i) =>
            /\ \/ /\ call.failedAt = i
                  /\ call.exc = [type |-> "ValueError", arg |-> <<Request[i]>>]
                  /\ \A j \in 1..(i - 1) : \E a \in {AttemptsOf(j)[n] : n \in 1..Len(AttemptsOf(j))} : a.ok
               \/ /\ call.failedAt \in 1..(i - 1)
                  /\ call.exc.type = "OSError"
            /\ \A j \in 1..Len(call.attempts) : call.attempts[j].idx < i
            /\ (i = 1 => call.attempts = <<>>)

C8_Witness ==
    /\ call.op = "load" /\ call.names = Some(<<"a", "x">>)
    /\ call.exc = [type |-> "ValueError", arg |-> <<"x">>]
    /\ Len(Successes) = 1

\* C9 as claimed: a load() call that fails leaves the set of loaded libraries
\* as it was before the call.
C9_FailedCallLoadsNothing ==
    [][(call'.op = "load" /\ call'.failedAt # 0) => loaded' = loaded]_vars

\* C9 amended: a call that returns normally has loaded every requested
\* library; a call that fails has loaded the requested libraries standing
\* before the failing name, which stay loaded, and none from the failing name
\* on; the loaded set after any call is the set before plus what it loaded.
C9_LoadedUpToFailure ==
    /\ [](call.op = "load" =>
            /\ (call.failedAt = 0) <=> (call.exc = NoExc)
            /\ call.failedAt \in 0..Len(Request)
            /\ \A i \in 1..Len(Request) :
                  LET ok == {n \in 1..Len(AttemptsOf(i)) : AttemptsOf(i)[n].ok}
                  IN  IF call.failedAt = 0 \/ i < call.failedAt
                      THEN \E n \in ok : AttemptsOf(i)[n].target \in loaded
                      ELSE ok = {})
    /\ [][call'.op = "load" =>
            loaded' = loaded \cup {call'.attempts[j].target :
                                     j \in {n \in 1..Len(call'.attempts) : call'.attempts[n].ok}}]_vars

C9_Witness ==
    /\ call.op = "load" /\ call.names = Some(<<"a", "b">>)
    /\ call.failedAt = 2 /\ call.exc.type = "OSError"
    /\ Len(Successes) = 1 /\ Successes[1].target \in loaded

-----------------------------------------------------------------------------
\* The argument an entry gives for platform P.
EntryArg(e, P) ==
    CASE P = "Linux" -> e.Linux
      [] P = "Darwin" -> e.Darwin
      [] OTHER -> e.Windows

\* The PlatformLibrary(...) call of the entry yields a descriptor: in the
\* shared revision every path given must be absolute.
C10_IsDescriptor(impl, e) ==
    /\ e.form = "desc"
    /\ \A P \in Platforms :
          \/ EntryArg(e, P).t = "None"
          \/ /\ EntryArg(e, P).t = "str"
             /\ (impl = "shared" /\ EntryArg(e, P).s # <<>>) =>
                    IsAbsolute(PathOf(EntryArg(e, P).s, platform), platform)

\* The entry gives a path for the running platform.
C10_PathSet(e) == EntryArg(e, platform).t = "str" /\ EntryArg(e, platform).s # <<>>

\* C10: on Linux, Darwin and Windows alike, constructing a loader from
\* descriptors that have a path set for the running platform succeeds and
\* registers exactly that path for each library, whatever the entries of the
\* other two platforms are.
C10_PathSetResolves ==
    (/\ call.op = "init"
     /\ platform \in Platforms
     /\ \A i \in 1..Len(call.items) :
           C10_IsDescriptor(call.impl, call.items[i].entry) /\ C10_PathSet(call.items[i].entry))
    =>  /\ call.exc = NoExc
        /\ loader.constructed
        /\ Len(loader.libraries) = Len(call.items)
        /\ \A i \in 1..Len(call.items) :
              loader.libraries[i] =
                 [name |-> call.items[i].name,
                  path |-> Some(PathOf(EntryArg(call.items[i].entry, platform).s, platform))]

C10_Witness ==
    /\ call.op = "init" /\ platform = "Darwin" /\ call.exc = NoExc
    /\ Len(call.items) = 1 /\ call.items[1].entry.form = "desc"
    /\ call.items[1].entry.Linux = ArgNone
    /\ call.items[1].entry.Windows # ArgNone
    /\ C10_PathSet(call.items[1].entry)
    /\ loader.constructed

-----------------------------------------------------------------------------
\* Construction: unset entries and the fallback producer

\* A descriptor written as documented: every entry unset or an absolute path.
WellFormed(e) ==
    /\ e.form = "desc"
    /\ \A P \in Platforms :
          \/ EntryArg(e, P) = ArgNone
          \/ /\ EntryArg(e, P).t = "str"
             /\ IsAbsolute(PathOf(EntryArg(e, P).s, platform), platform)

\* The descriptor has no explicit path for the running platform: the platform
\* is none of the three, or its entry is left unset.
NoExplicitPath(e) == platform \notin Platforms \/ EntryArg(e, platform) = ArgNone

\* The last call constructed from well-formed descriptors only.
InitWellFormed ==
    /\ call.op = "init"
    /\ \A i \in 1..Len(call.items) : WellFormed(call.items[i].entry)

\* How often the fallback producer of library n was invoked by the last call.
DefaultCalls(n) == Len(SelectSeq(call.defaults, LAMBDA d : d = n))

\* C11: when every library without an explicit path for the running platform
\* has a fallback producer, construction succeeds, each such producer is
\* invoked exactly once, and the registry holds what it returned.
C11_FallbackProducerUsed ==
    (/\ InitWellFormed
     /\ call.impl = "shared"
     /\ \A i \in 1..Len(call.items) :
           NoExplicitPath(call.items[i].entry) => call.items[i].entry.default # None)
    =>  /\ call.exc = NoExc
        /\ loader.constructed
        /\ Len(loader.libraries) = Len(call.items)
        /\ \A i \in 1..Len(call.items) :
              NoExplicitPath(call.items[i].entry) =>
                 /\ DefaultCalls(call.items[i].name) = 1
                 /\ loader.libraries[i] =
                       [name |-> call.items[i].name,
                        path |-> Some(PathOf(call.items[i].entry.default[1], platform))]

\* The first library of the last call that has neither a path for the running
\* platform nor a fallback producer (0 when there is none).
FirstMissing ==
    LET miss == {i \in 1..Len(call.items) :
                    /\ NoExplicitPath(call.items[i].entry)
                    /\ (call.impl = "shared" => call.items[i].entry.default = None)}
    IN  IF miss = {} THEN 0 ELSE CHOOSE i \in miss : \A j \in miss : i <= j

\* C12: a library with neither a path for the running platform nor a fallback
\* producer makes construction fail with a ValueError naming that library and
\* the platform, and no constructed registry holds an unset path.
C12_MissingPathFails ==
    /\ (InitWellFormed /\ FirstMissing # 0) =>
          /\ ~loader.constructed
          /\ call.exc = Exc("ValueError", <<call.items[FirstMissing].name, platform>>)
    /\ loader.constructed =>
          \A k \in 1..Len(loader.libraries) : loader.libraries[k].path # None

-----------------------------------------------------------------------------
\* Construction: the tuple form and relative paths

\* The entry is an ordered tuple (Linux, Darwin, Windows) of three paths.
IsPathTriple(e) ==
    /\ e.form = "tuple"
    /\ \A P \in Platforms : EntryArg(e, P).t = "str" /\ EntryArg(e, P).s # <<>>

\* The same mapping with every tuple written as the explicit descriptor
\* PlatformLibrary(Linux=..., Darwin=..., Windows=...) of the same three paths.
AsDescriptors(items) ==
    [i \in 1..Len(items) |->
        IF items[i].entry.form = "tuple"
        THEN [items[i] EXCEPT !.entry.form = "desc"]
        ELSE items[i]]

\* C13: on Linux, Darwin and Windows, a mapping that gives a library as a
\* tuple of three paths constructs exactly when the mapping with the
\* equivalent explicit descriptors does, and with the same registry.
C13_TupleRoundTrip ==
    (/\ call.op = "init"
     /\ platform \in Platforms
     /\ \E i \in 1..Len(call.items) : IsPathTriple(call.items[i].entry)
     /\ \A i \in 1..Len(call.items) :
           IsPathTriple(call.items[i].entry) \/ WellFormed(call.items[i].entry))
    =>  \E d \in {LibraryLoader_init(call.impl, AsDescriptors(call.items), platform)} :
           /\ loader.constructed = d.ok
           /\ d.ok => loader.libraries = d.libraries

\* The entry supplies a relative path for one of the three platforms.
HasRelativePath(e) ==
    /\ e.form \in {"desc", "tuple"}
    /\ \E P \in Platforms :
          /\ EntryArg(e, P).t = "str"
          /\ EntryArg(e, P).s # <<>>
          /\ ~IsAbsolute(PathOf(EntryArg(e, P).s, platform), platform)

\* C14: a relative path for any platform, in a descriptor or a tuple, makes
\* construction fail with an error, and every path a constructed registry
\* holds from an explicit entry is absolute.
C14_PathsAbsolute ==
    /\ (call.op = "init" /\ \E i \in 1..Len(call.items) : HasRelativePath(call.items[i].entry))
          => (~loader.constructed /\ call.exc.type \in {"ValueError", "TypeError"})
    /\ loader.constructed =>
          \A k \in 1..Len(loader.libraries) :
             (/\ loader.libraries[k].path # None
              /\ DefaultCalls(loader.libraries[k].name) = 0
              /\ platform \in Platforms
              /\ EntryArg(call.items[k].entry, platform).s # <<>>)
             => IsAbsolute(loader.libraries[k].path[1], platform)

-----------------------------------------------------------------------------
\* Symbol visibility

\* C15: every attempt of LibraryLoader.load(), by bare name or by bundled
\* path, is made with local visibility, and no library it loads ever enters
\* the process's global scope.
C15_AlwaysLocal ==
    /\ call.op = "load" => \A i \in 1..Len(call.attempts) : call.attempts[i].vis = "local"
    /\ linker.scope = <<>>

C15_Witness ==
    /\ call.op = "load"
    /\ \E i, j \in 1..Len(call.attempts) :
          /\ call.attempts[i].how = "system" /\ ~call.attempts[i].ok
          /\ call.attempts[j].how = "bundled" /\ call.attempts[j].ok
    /\ \E i \in 1..Len(call.attempts) :
          call.attempts[i].how = "system" /\ call.attempts[i].ok

\* The extension of consumer c was imported and bound.
Bound(c) == IF linker.ext[c] = None THEN FALSE ELSE linker.ext[c][1].ok

\* The bundled file of library n, as the template registers it.
BundledFile(n) == PathStr(PathOf(TemplateArg(platform, n, platform).s, platform))

\* C16: unless the packages load with GLOBAL visibility, every imported
\* extension binds its symbols to the library of its own package, whatever
\* other packages were loaded before it and in whatever order.
C16_LocalCoexists ==
    \A c \in Consumers :
       (Bound(c) /\ site.mode # "GLOBAL") => linker.ext[c][1].defines = LibOfConsumer(c)

C16_Witness ==
    /\ site.mode = "LOCAL"
    /\ \A c \in Consumers : Bound(c) /\ linker.ext[c][1].defines = LibOfConsumer(c)
    /\ \A n \in LibNames : BundledFile(n) \in loaded

\* In GLOBAL mode the collision does happen: an extension bound to the
\* library of the other package.
C16_GlobalCollision ==
    /\ site.mode = "GLOBAL"
    /\ \E c \in Consumers : Bound(c) /\ linker.ext[c][1].defines # LibOfConsumer(c)

-----------------------------------------------------------------------------
\* The consumer helper

\* The last call was load_library_module on a package that imports.
HelperOnImportable ==
    /\ call.op = "load_library_module"
    /\ site.pkgs[call.module] = "present"

\* C17: load_library_module(m, prefer_system=p) on an importable module calls
\* m.loader.load once, without names and with p; with p the bare name is tried
\* first; and when it returns normally in a loading mode, every library m
\* registers is loaded and the extension linked against it can be imported.
C17_HelperDelegates ==
    HelperOnImportable =>
       /\ call.invoked = <<[names |-> None, prefer_system |-> call.prefer_system]>>
       /\ modules[call.module] # None
       /\ (call.prefer_system /\ site.mode # "ENV") =>
             (call.attempts # <<>> /\ call.attempts[1].how = "system")
       /\ (~call.prefer_system /\ site.mode # "ENV") =>
             \A i \in 1..Len(call.attempts) : call.attempts[i].how = "bundled"
       /\ (call.exc = NoExc /\ site.mode # "ENV") =>
             \A k \in 1..Len(modules[call.module][1].libraries) :
                LET n == modules[call.module][1].libraries[k].name
                IN  /\ \E t \in loaded : LibOfTarget(t, platform) = n
                    /\ BindExtension(n, loaded, linker.scope, fs, platform).ok

C17_Witness ==
    /\ HelperOnImportable
    /\ site.mode = "GLOBAL"
    /\ call.prefer_system
    /\ call.exc = NoExc
    /\ Len(call.attempts) = 2
    /\ BundledFile(LibOfPackage(call.module)) \in loaded

\* C18: load_library_module on a module that is not installed returns
\* normally, calls no loader and changes nothing: not the loaded libraries,
\* not the environment, not the imported modules; and the import of the
\* dependent package then fails in the OS loader when the library is not on
\* the system either.
C18_AbsentIsNoOp ==
    /\ [][(/\ call'.op = "load_library_module"
           /\ site.pkgs[call'.module] = "absent")
          => /\ call'.exc = NoExc
             /\ call'.invoked = <<>>
             /\ call'.attempts = <<>>
             /\ loaded' = loaded
             /\ environ' = environ
             /\ modules' = modules
             /\ linker' = linker]_vars
    /\ [](/\ call.op = "import"
          /\ site.pkgs[PkgName(LibOfConsumer(call.module))] = "absent"
          /\ <<LibFile(platform, LibOfConsumer(call.module))>> \notin fs
          => call.exc.type = "ImportError")

C18_Witness ==
    /\ call.op = "load_library_module"
    /\ site.pkgs[call.module] = "absent"
    /\ call.exc = NoExc
    /\ loaded # {}

\* C19: load_library_module returns without having called a loader only when
\* the named module is absent; a module that is present but fails to import,
\* and a loader whose load() fails, make it raise.
C19_OnlyAbsentIsSilent ==
    call.op = "load_library_module" =>
       /\ (call.exc = NoExc /\ call.invoked = <<>>) => site.pkgs[call.module] = "absent"
       /\ site.pkgs[call.module] \in {"missing_dep", "misbuilt"} => call.exc # NoExc
       /\ call.failedAt # 0 => call.exc # NoExc

\* C20: in ENV mode load(), called directly or through the helper, makes no
\* load attempt, leaves the loaded libraries and the global scope as they
\* were, and changes no environment variable but the search-path variable of
\* the running platform, which it sets.
C20_EnvModeFrame ==
    [][(/\ call'.op \in {"load", "load_library_module"}
        /\ site.mode = "ENV"
        /\ modules'[call'.module] # None)
       => /\ call'.attempts = <<>>
          /\ call'.exc = NoExc
          /\ loaded' = loaded
          /\ linker' = linker
          /\ DOMAIN environ' = DOMAIN environ
          /\ \A k \in DOMAIN environ \ {SearchPathVar(platform)} : environ'[k] = environ[k]
          /\ environ'[SearchPathVar(platform)] # None]_vars

C20_Witness ==
    /\ site.mode = "ENV"
    /\ platform = "Darwin"
    /\ call.op = "load"
    /\ call.exc = NoExc
    /\ environ[<<"DYLD_LIBRARY_PATH">>] =
          Some(<<"/", "opt", ":", "/", "pkg", "/", "lib", ":", "/", "pkg", "/", "lib">>)
    /\ environ[<<"LD_LIBRARY_PATH">>] = Some(<<"/", "usr">>)

-----------------------------------------------------------------------------
\* C22: there is no transition away from "loaded": whatever is constructed or
\* loaded next, by any loader, successfully or not, every library that is
\* loaded stays loaded.
C22_LoadedNeverShrinks == [][loaded \subseteq loaded']_vars

\* A call that failed on a lookup error in a process that had loaded a
\* library before it.
C22_Witness ==
    /\ call.op = "load"
    /\ call.exc.type = "ValueError"
    /\ loaded # {}

\* The attempts of one kind made for position i of the last call.
AttemptsHow(i, how) == SelectSeq(AttemptsOf(i), LAMBDA a : a.how = how)

\* C23: nothing is retried beyond the one fallback: every position of the
\* request gets at most two attempts, at most one with the bare name and at
\* most one with the bundled path; for a library the loop reached, the bundled
\* path is attempted exactly when system preference was not requested or the
\* bare-name attempt failed, and after a successful bare-name attempt there is
\* no bundled attempt and the bundled copy is not loaded by the call.
C23_AtMostOneFallback ==
    call.op = "load" =>
        \A i \in 1..Len(Request) :
            /\ Len(AttemptsOf(i)) <= 2
            /\ Len(AttemptsHow(i, "system")) <= 1
            /\ Len(AttemptsHow(i, "bundled")) <= 1
            /\ Reached(i) =>
                  /\ AttemptsHow(i, "bundled") # <<>> <=>
                        \/ ~SystemRequested(Request[i])
                        \/ \E j \in 1..Len(AttemptsOf(i)) :
                              AttemptsOf(i)[j].how = "system" /\ ~AttemptsOf(i)[j].ok
                  /\ (\E j \in 1..Len(AttemptsOf(i)) :
                         AttemptsOf(i)[j].how = "system" /\ AttemptsOf(i)[j].ok) =>
                        /\ Len(AttemptsOf(i)) = 1
                        /\ \A j \in 1..Len(call.attempts) :
                              call.attempts[j].target = BundledTarget(Request[i]) =>
                                 call.attempts[j].idx # i

\* A call with system preference whose bare-name attempts succeed while
\* the bundled copies are installed as well.
C23_Witness ==
    /\ call.op = "load"
    /\ call.prefer_system
    /\ Len(Request) = 2
    /\ \A i \in 1..2 : Reached(i) /\ BundledTarget(Request[i]) \in fs
                                  /\ Len(AttemptsOf(i)) = 1 /\ AttemptsOf(i)[1].ok
                                  /\ AttemptsOf(i)[1].how = "system"

\* A call where the fallback is taken: two attempts for one position.
C23_WitnessFallback ==
    /\ call.op = "load"
    /\ \E i \in 1..Len(Request) : C1_FallbackCase(i) /\ Len(AttemptsOf(i)) = 2

-----------------------------------------------------------------------------
\* The attempts load() makes for position i of a request when the override
\* variable of library x holds v, everything else being as in the last call.
AttemptsWith(x, v, i) ==
    LET r == LibraryLoader_load(loader.libraries, [environ EXCEPT ![PreferVar(x)] = v],
                                fs, {}, call.names, call.prefer_system)
    IN  IF r.failedAt = 0 \/ i <= r.failedAt
        THEN Some(SelectSeq(r.attempts, LAMBDA a : a.idx = i))
        ELSE None

\* C27: the override variable is per library: for two distinct registered
\* names x and y, names that differ only in letter case included, giving the
\* variable of x any other value leaves the attempts load() makes for y, at a
\* position it reaches either way, as they are.
C27_OverridePerLibrary ==
    call.op = "load" =>
        \A i \in 1..Len(Request) : Reached(i) =>
            \A x \in {RegistryNames[k] : k \in 1..Len(RegistryNames)} \ {Request[i]} :
                \A v \in {None, Some("true"), Some("false")} :
                    AttemptsWith(x, v, i) \in {None, Some(AttemptsOf(i))}

\* The same for names whose upper-case forms differ.
C27_DistinctVariables ==
    call.op = "load" =>
        \A i \in 1..Len(Request) : Reached(i) =>
            \A x \in {RegistryNames[k] : k \in 1..Len(RegistryNames)} \ {Request[i]} :
                Upper(x) # Upper(Request[i]) =>
                    \A v \in {None, Some("true"), Some("false")} :
                        AttemptsWith(x, v, i) \in {None, Some(AttemptsOf(i))}

-----------------------------------------------------------------------------
\* Position i of the last request cannot be loaded: its name is not
\* registered, or the OS resolves neither its bundled path nor, when system
\* preference is requested, its bare name.
CannotLoad(i) ==
    \/ ~IsRegistered(Request[i])
    \/ /\ BundledTarget(Request[i]) \notin fs
       /\ ~SystemRequested(Request[i]) \/ SystemTarget(Request[i]) \notin fs

\* C28: load() stops at the first requested library that fails: the call
\* raises at the first position that cannot be loaded, no attempt is made for
\* any later position, and what was loaded for the earlier positions, and
\* before the call, stays loaded.
C28_StopsAtFirstFailure ==
    /\ [](call.op = "load" =>
            \A i \in 1..Len(Request) :
                (CannotLoad(i) /\ \A j \in 1..(i - 1) : ~CannotLoad(j)) =>
                    /\ call.failedAt = i
                    /\ call.exc.type \in {"ValueError", "OSError"}
                    /\ \A n \in 1..Len(call.attempts) : call.attempts[n].idx <= i
                    /\ \A j \in 1..(i - 1) :
                          \E n \in 1..Len(AttemptsOf(j)) :
                              AttemptsOf(j)[n].ok /\ AttemptsOf(j)[n].target \in loaded)
    /\ [][call'.op = "load" => loaded \subseteq loaded']_vars

\* The second of two requested libraries is missing on disk: the first is
\* loaded, the call raises the OSError.
C28_Witness ==
    /\ call.op = "load"
    /\ Len(Request) = 2
    /\ ~CannotLoad(1) /\ CannotLoad(2) /\ IsRegistered(Request[2])
    /\ call.exc.type = "OSError"
    /\ BundledTarget(Request[1]) \in loaded

\* The first of two requested names fails, the second could have been loaded.
C28_WitnessFirst ==
    /\ call.op = "load"
    /\ Len(Request) = 2
    /\ CannotLoad(1) /\ IsRegistered(Request[1]) /\ ~CannotLoad(2)
    /\ call.failedAt = 1
    /\ Len(call.attempts) = 1

-----------------------------------------------------------------------------
\* C29: the system attempt hands the OS loader the final component of the
\* library's resolved path, so both attempts for a library name the same file;
\* the registry name itself is never handed to the OS loader; and a failed
\* system attempt is followed by the bundled attempt without any error of its
\* own, the call failing at that library only if the bundled attempt fails too.
C29_SystemAttemptIsFileName ==
    call.op = "load" =>
        \A n \in 1..Len(call.attempts) :
            LET a == call.attempts[n]
                full == BundledTarget(a.lib)
            IN  /\ IsRegistered(a.lib)
                /\ a.target # <<a.lib>>
                /\ a.how = "bundled" => a.target = full
                /\ a.how = "system" =>
                      /\ a.target = <<full[Len(full)]>>
                      /\ ~a.ok =>
                            /\ n < Len(call.attempts)
                            /\ call.attempts[n + 1].idx = a.idx
                            /\ call.attempts[n + 1].how = "bundled"
                            /\ call.attempts[n + 1].target[Len(full)] = a.target[1]
                            /\ call.attempts[n + 1].ok => call.failedAt # a.idx
                            /\ call.failedAt = a.idx =>
                                  call.exc = Exc("OSError", full)

\* load(["b"], prefer_system=True) with only the bundled copy installed.
C29_Witness ==
    /\ call.op = "load"
    /\ call.names = Some(<<"b">>)
    /\ call.prefer_system
    /\ Len(call.attempts) = 2
    /\ call.attempts[1].target = <<"libb.so">> /\ ~call.attempts[1].ok
    /\ call.attempts[2].ok
    /\ call.exc = NoExc

-----------------------------------------------------------------------------
\* What the OS loader was asked and answered, whatever the position.
Asked(attempts) ==
    [n \in 1..Len(attempts) |->
        [how |-> attempts[n].how, target |-> attempts[n].target,
         vis |-> attempts[n].vis, ok |-> attempts[n].ok]]

\* Position i of the last call loaded its library.
LoadedAt(i) == \E n \in 1..Len(AttemptsOf(i)) : AttemptsOf(i)[n].ok

-----------------------------------------------------------------------------
\* Vocabulary of the statement-level model

TestingModes == {"LOCAL", "GLOBAL"}
VisOfMode(mode) == IF mode = "GLOBAL" THEN "global" ELSE "local"

\* C21: the registry is built once, at construction, and stays as built: at
\* every point of every load() call, in every mode, whatever the call is asked
\* and however it ends, it is the mapping the constructor computed; no step of
\* load() changes the loader's registry or invokes a fallback producer.
C21_RegistryImmutable ==
    /\ [](loader.constructed =>
            /\ call.op = "init"
            /\ loader.libraries = LibraryLoader_init(call.impl, call.items, platform).libraries)
    /\ [][loader.constructed =>
            /\ loader'.constructed
            /\ loader'.libraries = loader.libraries
            /\ call'.defaults = call.defaults]_vars

\* A GLOBAL-mode call on a two-library registry that is about to raise the
\* lookup error of its second name after loading the first.
C21_Witness ==
    /\ loader.constructed /\ loader.mode = "GLOBAL"
    /\ Len(loader.libraries) = 2
    /\ threads[1].pc = "finally"
    /\ threads[1].exc.type = "ValueError"
    /\ threads[1].failedAt = 2
    /\ loaded # {}

\* C24: in the testing loader the mode fixes the visibility of every attempt
\* of a call, bare-name and bundled alike: global in the GLOBAL mode, local in
\* the LOCAL mode; and once a call of these modes has returned or raised,
\* self._load is the local-visibility function again.
C24_ModeFixesVisibility ==
    (loader.constructed /\ loader.mode \in TestingModes) =>
        \A t \in DOMAIN threads :
            /\ \A n \in 1..Len(threads[t].attempts) :
                  threads[t].attempts[n].vis = VisOfMode(loader.mode)
            /\ threads[t].pc = "idle" => loader._load = "local"

\* A GLOBAL-mode call has loaded a library into the global scope and is over.
C24_Witness ==
    /\ loader.constructed /\ loader.mode = "GLOBAL"
    /\ threads[1].pc = "idle" /\ threads[1].calls = 1
    /\ linker.scope # <<>>
    /\ loader._load = "local"

\* A GLOBAL-mode call made the bare-name and the bundled attempt, both failed,
\* and the OSError is on its way out.
C24_WitnessRaises ==
    /\ loader.constructed /\ loader.mode = "GLOBAL"
    /\ threads[1].pc = "finally"
    /\ Len(threads[1].attempts) = 2
    /\ threads[1].attempts[1].how = "system" /\ threads[1].attempts[2].how = "bundled"
    /\ threads[1].exc.type = "OSError"

\* C25: with two threads inside load() on the same GLOBAL-mode loader, every
\* attempt of either call is made with global visibility, whatever the
\* interleaving.
C25_ConcurrentGlobal ==
    (loader.constructed /\ loader.mode = "GLOBAL") =>
        \A t \in DOMAIN threads :
            \A n \in 1..Len(threads[t].attempts) : threads[t].attempts[n].vis = "global"

\* The directory part of a path string: everything before the last separator.
DirOf(str) == SubSeq(str, 1, Len(str) - 2)

\* dirs[1] sep dirs[2] sep ... dirs[n], built from the left.
RECURSIVE Joined(_, _, _)
Joined(dirs, sep, n) ==
    IF n = 0 THEN <<>>
    ELSE IF n = 1 THEN dirs[1]
    ELSE Joined(dirs, sep, n - 1) \o <<sep>> \o dirs[n]

\* C26: a load() call in the ENV mode sets the search-path variable to its
\* previous value, then one separator if that value was not empty, then the
\* directories of all registered libraries in registry order joined by the
\* separator (";" on Windows, ":" elsewhere), whatever names and prefer_system
\* are; an unregistered name raises nothing.
C26_EnvValue ==
    [][(loader.constructed /\ loader.mode = "ENV") =>
          LET var == SearchPathVar(platform)
              sep == IF platform = "Windows" THEN ";" ELSE ":"
              old == IF environ[var] = None THEN <<>> ELSE environ[var][1]
              dirs == [k \in 1..Len(loader.libraries) |->
                          DirOf(PathStr(loader.libraries[k].path[1]))]
          IN  /\ environ'[var] =
                    Some(old \o (IF old = <<>> THEN <<>> ELSE <<sep>>)
                             \o Joined(dirs, sep, Len(dirs)))
              /\ SubSeq(environ'[var][1], 1, Len(old)) = old
              /\ \A t \in DOMAIN threads : threads'[t].exc = NoExc]_vars

\* On Windows, load(["x"], prefer_system=True) on the registry (b, a) with a
\* directory per library and PATH set to /opt.
C26_Witness ==
    /\ loader.constructed /\ loader.mode = "ENV"
    /\ platform = "Windows"
    /\ threads[1].names = Some(<<"x">>) /\ threads[1].prefer_system
    /\ threads[1].exc = NoExc
    /\ environ[<<"PATH">>] =
          Some(<<"/", "opt", ";", "C:", "/", "pkg", "/", "libb", ";",
                 "C:", "/", "pkg", "/", "liba">>)

\* A call with the variable unset or empty: no leading separator.
C26_WitnessEmpty ==
    /\ loader.constructed /\ loader.mode = "ENV"
    /\ platform = "Linux"
    /\ threads[1].calls = 1
    /\ environ[<<"LD_LIBRARY_PATH">>] =
          Some(<<"/", "pkg", "/", "liba", ":", "/", "pkg", "/", "libb">>)

====
